---------------------------- MODULE Spec2Model ----------------------------
(***************************************************************************)
(* A model of lingualeo_translator/lingualeo.py: option resolution         *)
(* (prepare_options and the config melding), the run of                    *)
(* process_translating under main, and the candidate extraction and        *)
(* ranking inside lingualeo_translate.                                     *)
(*                                                                         *)
(* A Python string is a sequence of one-character strings.  The letters    *)
(* stand for classes of characters: "p" a lower-case Cyrillic letter, "P"  *)
(* an upper-case Cyrillic letter, "1" a digit.                             *)
(***************************************************************************)
EXTENDS Integers, Sequences, FiniteSets, TLC

VARIABLES
    pc,                 \* position of the program
    translates,         \* translate_json_response['translate']
    pairs,              \* the (votes, word) pairs of the generator, lines 187-191
    twords,             \* the ranked word list, lines 193-196
    cfgIdx,             \* read_configs: index of the next config file
    cfgFiles,           \* prepare_options: config_files, the kinds of file found
    lastKind,           \* read_configs: kind of the file read last
    result,             \* read_configs: the melded config so far
    seenTrue,           \* history: the flags some source has set to True
    args,               \* prepare_options: args_options
    options,            \* the merged options, or None
    log,                \* history: the steps taken, in order
    debugged,           \* the responses handed to debug_request, in order
    auth_response,      \* process_translating: auth_response
    translate_response, \* process_translating: translate_response, <<>> for None
    add_request,        \* the data of the add-word POST, <<>> before it
    retval,             \* what process_translating returned
    exitCode            \* <<c>> once the process has exited with code c

vars == <<pc, translates, pairs, twords, cfgIdx, cfgFiles, lastKind, result,
          seenTrue, args, options, log, debugged, auth_response, translate_response,
          add_request, retval, exitCode>>

\* Python's None.
None == "None"

-----------------------------------------------------------------------------
(* Bounds of the model. *)

\* The pieces a value string is assembled from, at most.
MaxTokens == 4

\* The pairs handed to the ranker, at most.
MaxPairs == 3

\* The largest vote count.
MaxVotes == 2

\* The entries of a translate response in a run, at most.
MaxEntries == 2

-----------------------------------------------------------------------------
(* Characters and strings. *)

\* What \s matches and str.strip() removes, among the model's characters.
Whitespace == {" ", "\t", "\n"}

\* The delimiters of the split pattern.
Delims == {":", ",", ";"}

\* The argument of word.strip(u' ;:,\n').
StripChars == {" ", ";", ":", ",", "\n"}

\* The characters for which str.isdigit() is true.
Digits == {"1"}

\* Unicode code points, the order of Python's string comparison.
Ord(c) ==
    CASE c = "\t" -> 9
      [] c = "\n" -> 10
      [] c = " "  -> 32
      [] c = ","  -> 44
      [] c = "1"  -> 49
      [] c = ":"  -> 58
      [] c = ";"  -> 59
      [] c = "P"  -> 1055
      [] c = "p"  -> 1087

RECURSIVE LStrip(_, _)
\* str.lstrip(chars)
LStrip(s, chars) ==
    IF s # <<>> /\ Head(s) \in chars THEN LStrip(Tail(s), chars) ELSE s

RECURSIVE RStrip(_, _)
\* str.rstrip(chars)
RStrip(s, chars) ==
    IF s # <<>> /\ s[Len(s)] \in chars
    THEN RStrip(SubSeq(s, 1, Len(s) - 1), chars)
    ELSE s

\* str.strip(chars)
StripOf(s, chars) == RStrip(LStrip(s, chars), chars)

\* str.strip()
WsStrip(s) == StripOf(s, Whitespace)

\* A faulty variant of WordStrip: nothing is stripped.
WordStripNothing(s) == s

\* word.strip(u' ;:,\n'), line 187
WordStrip(s) == StripOf(s, StripChars)

-----------------------------------------------------------------------------
(* re.split(r'(\s*?:\s*?|\s*?,\s*?|\s*?;\s*?)', s), lines 189-190. *)

RECURSIVE FirstNonSpace(_, _)
\* The first position from i on that holds no whitespace, Len(s) + 1 if none.
FirstNonSpace(s, i) ==
    IF i <= Len(s) /\ s[i] \in Whitespace THEN FirstNonSpace(s, i + 1) ELSE i

\* The pattern tried at position i: lazy whitespace, one delimiter, and a lazy
\* trailing \s*? that takes nothing.  The position of the match's last
\* character, 0 if the pattern does not match at i.
MatchEnd(s, i) ==
    LET k == FirstNonSpace(s, i)
    IN  IF k <= Len(s) /\ s[k] \in Delims THEN k ELSE 0

RECURSIVE Search(_, _)
\* The leftmost position from pos on where the pattern matches, 0 if none.
Search(s, pos) ==
    IF pos > Len(s) THEN 0
    ELSE IF MatchEnd(s, pos) # 0 THEN pos
    ELSE Search(s, pos + 1)

RECURSIVE SplitFrom(_, _)
\* The pieces of s from pos on: the text between the matches and, the pattern
\* being one capturing group, each match itself.
SplitFrom(s, pos) ==
    LET i == Search(s, pos)
    IN  IF i = 0 THEN << SubSeq(s, pos, Len(s)) >>
        ELSE << SubSeq(s, pos, i - 1), SubSeq(s, i, MatchEnd(s, i)) >>
             \o SplitFrom(s, MatchEnd(s, i) + 1)

ReSplit(s) == SplitFrom(s, 1)

-----------------------------------------------------------------------------
(* The generator of lines 187-191. *)

\* translate.get('votes', 0)
VotesOf(translate) ==
    IF "votes" \in DOMAIN translate THEN translate["votes"] ELSE 0

\* A faulty variant of Survives: the threshold is 1.
SurvivesLenient(word) ==
    /\ Len(WsStrip(word)) > 1
    /\ WsStrip(word)[1] \notin Digits

\* len(word.strip()) > 2 and not word.strip()[0].isdigit(), line 191
Survives(word) ==
    /\ Len(WsStrip(word)) > 2
    /\ WsStrip(word)[1] \notin Digits

RECURSIVE FilterWords(_, _)
\* The pairs of one entry: its surviving pieces, in order.
FilterWords(votes, words) ==
    IF words = <<>> THEN <<>>
    ELSE (IF Survives(Head(words))
          THEN << <<votes, WordStrip(Head(words))>> >>
          ELSE <<>>)
         \o FilterWords(votes, Tail(words))

\* for word in re.split(..., translate['value'].strip()) if ...
EntryPairs(translate) ==
    FilterWords(VotesOf(translate), ReSplit(WsStrip(translate["value"])))

RECURSIVE ExtractPairs(_)
\* for translate in translates for word in ...: the whole generator
ExtractPairs(ts) ==
    IF ts = <<>> THEN <<>>
    ELSE EntryPairs(Head(ts)) \o ExtractPairs(Tail(ts))

-----------------------------------------------------------------------------
(* sorted(..., reverse=True) and the walk of lines 193-196. *)

RECURSIVE StrLess(_, _)
\* a < b on Python strings: by code point, a proper prefix first.
StrLess(a, b) ==
    IF b = <<>> THEN FALSE
    ELSE IF a = <<>> THEN TRUE
    ELSE IF Head(a) # Head(b) THEN Ord(Head(a)) < Ord(Head(b))
    ELSE StrLess(Tail(a), Tail(b))

\* a < b on (votes, word) tuples.
TupleLess(a, b) ==
    \/ a[1] < b[1]
    \/ a[1] = b[1] /\ StrLess(a[2], b[2])

RECURSIVE InsertDesc(_, _)
\* x put into a descending list behind everything not smaller than it.
InsertDesc(x, s) ==
    IF s = <<>> THEN <<x>>
    ELSE IF TupleLess(Head(s), x) THEN <<x>> \o s
    ELSE <<Head(s)>> \o InsertDesc(x, Tail(s))

RECURSIVE SortFrom(_, _)
SortFrom(done, rest) ==
    IF rest = <<>> THEN done
    ELSE SortFrom(InsertDesc(Head(rest), done), Tail(rest))

RECURSIVE ReverseSeq(_)
ReverseSeq(s) ==
    IF s = <<>> THEN <<>> ELSE ReverseSeq(Tail(s)) \o <<Head(s)>>

\* A faulty variant of SortedReverse: the sort ascends.
SortedAscending(ps) == ReverseSeq(SortFrom(<<>>, ps))

\* sorted(pairs, reverse=True), lines 186-192
SortedReverse(ps) == SortFrom(<<>>, ps)

RECURSIVE Dedup(_, _)
\* for _, tword in sorted_pairs: if tword not in twords: twords.append(tword)
Dedup(acc, sp) ==
    IF sp = <<>> THEN acc
    ELSE IF \E i \in 1..Len(acc) : acc[i] = Head(sp)[2]
         THEN Dedup(acc, Tail(sp))
         ELSE Dedup(Append(acc, Head(sp)[2]), Tail(sp))

\* twords as lines 186-196 compute it from the generator's pairs
RankedWords(ps) == Dedup(<<>>, SortedReverse(ps))

-----------------------------------------------------------------------------
(* Option values and the melding of configs, lines 50-82.                   *)
(*                                                                         *)
(* A mapping is a function from keys to values; a value is a scalar (a     *)
(* boolean "True" or "False", None, or a string), a list (the set of its   *)
(* items: list(set(values)) fixes no order) or a dict.                     *)

Scalar(v) == [kind |-> "scalar", val |-> v]

ListOf(items) == [kind |-> "list", val |-> items]

DictOf(f) == [kind |-> "dict", val |-> f]

PyTrue == Scalar("True")

PyFalse == Scalar("False")

PyNone == Scalar("None")

\* The truth value of v as `if v` takes it.
Truthy(v) ==
    CASE v.kind = "scalar" -> v.val \notin {"False", "None", ""}
      [] v.kind = "list"   -> v.val # {}
      [] v.kind = "dict"   -> DOMAIN v.val # {}

\* a or b
PyOr(a, b) == IF Truthy(a) THEN a ELSE b

\* dict.get(key), None when the key is absent
Get(m, key) == IF key \in DOMAIN m THEN m[key] ELSE PyNone

\* dict.update: the keys of b set in a
Update(a, b) ==
    [k \in DOMAIN a \cup DOMAIN b |-> IF k \in DOMAIN b THEN b[k] ELSE a[k]]

\* The boolean flags of the command line.
Flags == {"add", "debug", "force", "sound"}

\* What yaml.load makes of a file, or that it cannot be read.
FileKinds == {"unreadable", "invalid", "empty", "text", "sequence", "mapping"}

\* read_config, lines 50-56: what yaml.load returned, and {} when codecs.open
\* or yaml.load raised.  An empty file loads as None, a scalar or a sequence
\* document as itself.
ReadConfig(kind, mapping) ==
    CASE kind \in {"unreadable", "invalid"} -> [kind |-> "mapping", map |-> <<>>]
      [] kind = "empty"    -> [kind |-> "none", map |-> <<>>]
      [] kind = "text"     -> [kind |-> "text", map |-> <<>>]
      [] kind = "sequence" -> [kind |-> "sequence", map |-> <<>>]
      [] kind = "mapping"  -> [kind |-> "mapping", map |-> mapping]

\* A faulty variant of FilterTruthy: the falsy values stay.
FilterNothing(option) == option

\* option = {k: v for k, v in option.items() if v}, line 62
FilterTruthy(option) ==
    [k \in { n \in DOMAIN option : Truthy(option[n]) } |-> option[k]]

\* Lines 64-73 raise AttributeError: extend on what is no list, update on what
\* is no dict.
MeldKeyRaises(res, key, value) ==
    /\ key \in DOMAIN res
    /\ \/ value.kind = "list" /\ res[key].kind # "list"
       \/ value.kind = "dict" /\ res[key].kind # "dict"

\* Lines 64-73 for one key: a list joins the list there, a dict updates the
\* dict there, anything else replaces what is there.
MeldKey(res, key, value) ==
    CASE value.kind = "list" ->
            ListOf((IF key \in DOMAIN res THEN res[key].val ELSE {}) \cup value.val)
      [] value.kind = "dict" ->
            DictOf(Update(IF key \in DOMAIN res THEN res[key].val ELSE <<>>, value.val))
      [] OTHER -> value

\* meld_configs(result, config) does not return: option.items() on what is no
\* mapping (line 62), or lines 64-73.
MeldRaises(res, config) ==
    \/ config.kind # "mapping"
    \/ \E key \in DOMAIN FilterTruthy(config.map) :
          MeldKeyRaises(res, key, config.map[key])

\* meld_configs(result, config), lines 59-74, when it returns
MeldConfigs(res, config) ==
    LET option == FilterTruthy(config.map)
    IN  [k \in DOMAIN res \cup DOMAIN option |->
            IF k \in DOMAIN option THEN MeldKey(res, k, option[k]) ELSE res[k]]

\* check_options, lines 85-105: no required name is absent
CheckOptions(opts) ==
    {"email", "password", "add", "word", "debug", "force", "sound"}
        \subseteq DOMAIN opts

\* Lines 123-131: the flags of the configs, the command line on top, and each
\* flag the command line's or, that one false, the configs'.
MergeArgs(res, argv) ==
    LET merged == Update(res, argv)
    IN  [k \in DOMAIN merged |->
            IF k \in Flags THEN PyOr(merged[k], Get(res, k)) ELSE merged[k]]

-----------------------------------------------------------------------------
(* The values of the variables a specification leaves alone. *)

IdleExtract == translates = <<>> /\ pairs = <<>>

IdleRank == twords = <<>>

IdleOptions ==
    /\ cfgIdx = 0
    /\ cfgFiles = <<>>
    /\ lastKind = None
    /\ result = <<>>
    /\ seenTrue = {}
    /\ args = <<>>
    /\ options = <<>>

IdleRun ==
    /\ log = <<>>
    /\ debugged = <<>>
    /\ auth_response = None
    /\ translate_response = <<>>
    /\ add_request = <<>>
    /\ retval = None
    /\ exitCode = <<>>

-----------------------------------------------------------------------------
(* The extractor on its own: every translate list assembled from at most    *)
(* MaxTokens pieces, in at most two entries.                                *)

\* The pieces: a word of three letters, one of two, a capital, a digit, the
\* whitespace and the delimiters.
Tokens ==
    { <<"p", "p", "p">>, <<"p", "p">>, <<"P">>, <<"1">>,
      <<" ">>, <<"\t">>, <<",">>, <<";">>, <<":">> }

RECURSIVE Concat(_)
Concat(ts) == IF ts = <<>> THEN <<>> ELSE Head(ts) \o Concat(Tail(ts))

TokenSeqs(n) == UNION { [1..k -> Tokens] : k \in 0..n }

\* The entries with a given value: the votes field absent, or a count.
EntriesOf(value) ==
    { [value |-> value], [value |-> value, votes |-> MaxVotes] }

\* One entry assembled from the pieces a, or two entries: the first from a, the
\* second from what a leaves of the MaxTokens pieces (the second entry costs one).
InitExtract ==
    /\ pc = "extract"
    /\ \E a \in TokenSeqs(MaxTokens) :
         \/ \E e \in EntriesOf(Concat(a)) : translates = <<e>>
         \/ /\ Len(a) < MaxTokens
            /\ \E b \in TokenSeqs(MaxTokens - 1 - Len(a)) :
                 \E e \in EntriesOf(Concat(a)), f \in EntriesOf(Concat(b)) :
                    translates = <<e, f>>
    /\ pairs = <<>>
    /\ IdleRank /\ IdleOptions /\ IdleRun

\* The generator expression of lines 187-191, run to its end.
Extract ==
    /\ pc = "extract"
    /\ pairs' = ExtractPairs(translates)
    /\ pc' = "extracted"
    /\ UNCHANGED <<translates, twords, cfgIdx, cfgFiles, lastKind, result,
                   seenTrue, args, options, log, debugged, auth_response,
                   translate_response, add_request, retval, exitCode>>

NextExtract == Extract

SpecExtract == InitExtract /\ [][NextExtract]_vars

-----------------------------------------------------------------------------
(* The ranker on its own: every sequence of at most MaxPairs pairs.         *)

\* Candidates that share prefixes and differ in case.
RankCandidates ==
    { <<"p", "p", "p">>, <<"p", "p", "P">>, <<"p", "p", "p", "p">> }

PairSeqs ==
    UNION { [1..k -> (0..MaxVotes) \X RankCandidates] : k \in 0..MaxPairs }

InitRank ==
    /\ pc = "rank"
    /\ pairs \in PairSeqs
    /\ translates = <<>>
    /\ twords = <<>>
    /\ IdleOptions /\ IdleRun

\* sorted(...) and the walk of lines 193-196.
Rank ==
    /\ pc = "rank"
    /\ twords' = RankedWords(pairs)
    /\ pc' = "ranked"
    /\ UNCHANGED <<translates, pairs, cfgIdx, cfgFiles, lastKind, result,
                   seenTrue, args, options, log, debugged, auth_response,
                   translate_response, add_request, retval, exitCode>>

NextRank == Rank

SpecRank == InitRank /\ [][NextRank]_vars

-----------------------------------------------------------------------------
(* Option resolution on its own: prepare_options, lines 115-135.            *)

\* The flags of a config file: each absent, true or false.
FlagPart(f) ==
    [k \in { n \in Flags : f[n] # "absent" } |-> Scalar(f[k])]

\* What else a config file holds: nothing, the credentials, or a key that is a
\* scalar in one file, a list or a dict in another.
OtherParts ==
    { <<>>,
      ("email" :> Scalar("e")) @@ ("password" :> Scalar("pw")),
      "extra" :> Scalar("s"),
      "extra" :> ListOf({"x"}),
      "extra" :> ListOf({"y"}),
      "extra" :> DictOf("k" :> "x"),
      "extra" :> DictOf("k" :> "y") }

ConfigMappings ==
    { FlagPart(f) @@ other :
        f \in [Flags -> {"absent", "True", "False"}], other \in OtherParts }

\* The optional arguments given on the command line.
OptionalArgs ==
    { [k \in names |-> Scalar(k)] : names \in SUBSET {"email", "password", "player"} }

\* vars(parser.parse_args()) without the None values, line 117-119: the four
\* store_true flags and the word, always there, and what else was given.
ArgsOptions(withConfig) ==
    { f @@ ("word" :> Scalar("word")) @@ opt
        @@ (IF withConfig THEN "config" :> Scalar("config") ELSE <<>>) :
        f \in [Flags -> {PyTrue, PyFalse}], opt \in OptionalArgs }

\* The flags a mapping sets to True.
TrueFlags(m) == { f \in Flags \cap DOMAIN m : m[f] = PyTrue }

\* config_files, lines 120-121: of the home directory's file, the current
\* directory's and the one named by --config, those that are files.
InitOptions ==
    /\ pc = "read_configs"
    /\ cfgFiles \in { <<>>, <<"home">>, <<"cwd">>, <<"arg">>, <<"home", "cwd">>,
                      <<"home", "arg">>, <<"cwd", "arg">>, <<"home", "cwd", "arg">> }
    /\ cfgIdx = 1
    /\ lastKind = None
    /\ result = <<>>
    /\ seenTrue = {}
    /\ args = <<>>
    /\ options = <<>>
    /\ IdleExtract /\ IdleRank /\ IdleRun

\* One turn of the loop of read_configs, lines 79-81: the next file is read and
\* melded; an exception out of meld_configs ends the process.
ReadConfigs ==
    /\ pc = "read_configs"
    /\ cfgIdx <= Len(cfgFiles)
    /\ \E kind \in FileKinds, mapping \in ConfigMappings :
          LET config == ReadConfig(kind, mapping)
          IN  /\ kind # "mapping" => mapping = <<>>
              /\ lastKind' = kind
              /\ seenTrue' = seenTrue \cup TrueFlags(config.map)
              /\ IF MeldRaises(result, config)
                 THEN /\ pc' = "crashed"
                      /\ exitCode' = <<1>>
                      /\ UNCHANGED <<result, cfgIdx>>
                 ELSE /\ result' = MeldConfigs(result, config)
                      /\ cfgIdx' = cfgIdx + 1
                      /\ UNCHANGED <<pc, exitCode>>
    /\ UNCHANGED <<translates, pairs, twords, cfgFiles, args, options, log,
                   debugged, auth_response, translate_response, add_request,
                   retval>>

\* Lines 123-135, the configs read: the command line is laid over the melded
\* config, the flags are or-ed, and check_options decides between the options
\* and None.  Of the command line, parsed at line 118, only --config is read
\* before line 127 (cfgFiles holds it); the rest is drawn here.
PrepareOptions ==
    /\ pc = "read_configs"
    /\ cfgIdx > Len(cfgFiles)
    /\ \E argv \in ArgsOptions(\E i \in 1..Len(cfgFiles) : cfgFiles[i] = "arg") :
          /\ args' = argv
          /\ seenTrue' = seenTrue \cup TrueFlags(argv)
          /\ result' = MergeArgs(result, argv)
          /\ IF CheckOptions(MergeArgs(result, argv))
             THEN options' = MergeArgs(result, argv) /\ pc' = "prepared"
             ELSE options' = <<>> /\ pc' = "no_options"
    /\ UNCHANGED <<translates, pairs, twords, cfgIdx, cfgFiles, lastKind, log,
                   debugged, auth_response, translate_response, add_request,
                   retval, exitCode>>

NextOptions == ReadConfigs \/ PrepareOptions

SpecOptions == InitOptions /\ [][NextOptions]_vars

-----------------------------------------------------------------------------
(* A run of main, lines 341-347, from the return of prepare_options.        *)

\* The parameters of process_translating, line 230-231.
Params ==
    {"word", "email", "password", "player", "add", "debug", "force", "sound"}

\* What lines 123-131 leave in options: each flag True or None (a falsy flag
\* of a config is dropped at line 62 and the command line's False gives way to
\* the configs' None, see MergedFlagsTrueOrNone), the word, and what else was
\* given; config, which --config puts there, is no parameter of
\* process_translating.
MergedOptions ==
    { f @@ ("word" :> Scalar("word")) @@ opt :
        f \in [Flags -> {PyTrue, PyNone}],
        opt \in { [k \in names |-> Scalar(k)] :
                    names \in SUBSET {"email", "password", "player", "config"} } }

\* The translate entries the service answers with in a run.
RunEntries ==
    { [value |-> <<"p", "p", "p">>, votes |-> 1],
      [value |-> <<"p", "p", "P", ",", " ", "p", "p", "p">>],
      [value |-> <<"p", "p">>],
      [value |-> <<"1", "p", "p">>, votes |-> MaxVotes] }

RunTranslates == UNION { [1..k -> RunEntries] : k \in 0..MaxEntries }

\* A response: its status code and whether its JSON holds an error_msg.  The
\* JSON of a response that is not 200 is not read.
Responses ==
    { [status |-> 500, error_msg |-> FALSE],
      [status |-> 200, error_msg |-> TRUE],
      [status |-> 200, error_msg |-> FALSE] }

Entry(step, response) ==
    [step |-> step, status |-> response.status, error_msg |-> response.error_msg]

\* if debug: debug_request(response)
Debugged(step) ==
    IF Truthy(options["debug"]) THEN Append(debugged, step) ELSE debugged

InitRun ==
    /\ pc = "main"
    /\ result \in MergedOptions
    /\ options = IF CheckOptions(result) THEN result ELSE <<>>
    /\ cfgIdx = 0 /\ cfgFiles = <<>> /\ lastKind = None
    /\ seenTrue = {} /\ args = <<>>
    /\ IdleExtract /\ IdleRank /\ IdleRun

\* main, lines 342-345: no options, exit 1; else process_translating(**options),
\* a TypeError when options holds a key that is no parameter of it.
Main ==
    /\ pc = "main"
    /\ IF options = <<>>
       THEN pc' = "exited" /\ exitCode' = <<1>>
       ELSE IF ~(DOMAIN options \subseteq Params)
       THEN pc' = "crashed" /\ exitCode' = <<1>>
       ELSE pc' = "auth" /\ UNCHANGED exitCode
    /\ UNCHANGED <<translates, pairs, twords, cfgIdx, cfgFiles, lastKind, result,
                   seenTrue, args, options, log, debugged, auth_response,
                   translate_response, add_request, retval>>

\* A faulty variant of AuthResult: a 200 with an error_msg is a success.
AuthResultIgnoringError(response) ==
    IF response.status # 200 THEN None ELSE "json"

\* What lingualeo_auth returns, lines 157-166
AuthResult(response) ==
    IF response.status # 200 THEN None
    ELSE IF response.error_msg THEN None
    ELSE "json"

\* lingualeo_auth, lines 150-166, called at line 235
LingualeoAuth ==
    /\ pc = "auth"
    /\ \E response \in Responses :
          /\ log' = Append(log, Entry("auth", response))
          /\ auth_response' = AuthResult(response)
    /\ debugged' = Debugged("auth")
    /\ pc' = "after_auth"
    /\ UNCHANGED <<translates, pairs, twords, cfgIdx, cfgFiles, lastKind, result,
                   seenTrue, args, options, translate_response, add_request,
                   retval, exitCode>>

\* A faulty variant of AfterAuth: translate follows whatever was returned.
AfterAuthProceeds ==
    /\ pc = "after_auth"
    /\ pc' = "translate"
    /\ UNCHANGED <<translates, pairs, twords, cfgIdx, cfgFiles, lastKind, result,
                   seenTrue, args, options, log, debugged, auth_response,
                   translate_response, add_request, retval, exitCode>>

\* if auth_response is None: return, lines 236-237
AfterAuth ==
    /\ pc = "after_auth"
    /\ IF auth_response = None
       THEN pc' = "returned" /\ retval' = None
       ELSE pc' = "translate" /\ UNCHANGED retval
    /\ UNCHANGED <<translates, pairs, twords, cfgIdx, cfgFiles, lastKind, result,
                   seenTrue, args, options, log, debugged, auth_response,
                   translate_response, add_request, exitCode>>

\* lingualeo_translate returns None, lines 173-183: the status is not 200, the
\* JSON holds an error_msg, or its translate list is empty
TranslateFails(response, ts) ==
    \/ response.status # 200
    \/ response.error_msg
    \/ ts = <<>>

\* lingualeo_translate, lines 169-201, called at line 238.  The translate list,
\* is_user and sound_url are read from the JSON of a 200 without error_msg.
LingualeoTranslate ==
    /\ pc = "translate"
    /\ \E response \in Responses, ts \in RunTranslates,
          is_exist \in BOOLEAN, sound_url \in {"url", None} :
          /\ (response.status # 200 \/ response.error_msg) =>
                ts = <<>> /\ ~is_exist /\ sound_url = None
          /\ log' = Append(log, Entry("translate", response))
          /\ IF TranslateFails(response, ts)
             THEN /\ translate_response' = <<>>
                  /\ UNCHANGED <<translates, pairs, twords>>
             ELSE /\ translates' = ts
                  /\ pairs' = ExtractPairs(ts)
                  /\ twords' = RankedWords(ExtractPairs(ts))
                  /\ translate_response' =
                        <<is_exist, RankedWords(ExtractPairs(ts)), sound_url>>
    /\ debugged' = Debugged("translate")
    /\ pc' = "after_translate"
    /\ UNCHANGED <<cfgIdx, cfgFiles, lastKind, result, seenTrue, args, options,
                   auth_response, add_request, retval, exitCode>>

\* if translate_response is None: return, lines 239-241
AfterTranslate ==
    /\ pc = "after_translate"
    /\ IF translate_response = <<>>
       THEN pc' = "returned" /\ retval' = None
       ELSE pc' = "sound" /\ UNCHANGED retval
    /\ UNCHANGED <<translates, pairs, twords, cfgIdx, cfgFiles, lastKind, result,
                   seenTrue, args, options, log, debugged, auth_response,
                   translate_response, add_request, exitCode>>

\* Lines 242-249: with sound set and a player, the player is started on the
\* sound url and waited for, its exit status dropped.  sound_url is None when
\* the response held none (line 185), and Popen([player, None]) raises
\* TypeError, which nothing catches.
PlaySound ==
    /\ pc = "sound"
    /\ IF Truthy(options["sound"]) /\ "player" \in DOMAIN options
       THEN IF translate_response[3] = None
            THEN /\ log' = Append(log, [step |-> "sound_raise", status |-> 1,
                                        error_msg |-> FALSE])
                 /\ pc' = "crashed"
                 /\ exitCode' = <<1>>
            ELSE /\ \E status \in {0, 1} :
                      log' = log \o
                          << [step |-> "sound_start", status |-> 0,
                              error_msg |-> FALSE],
                             [step |-> "sound_end", status |-> status,
                              error_msg |-> FALSE] >>
                 /\ pc' = "add"
                 /\ UNCHANGED exitCode
       ELSE pc' = "add" /\ UNCHANGED <<log, exitCode>>
    /\ UNCHANGED <<translates, pairs, twords, cfgIdx, cfgFiles, lastKind, result,
                   seenTrue, args, options, debugged, auth_response,
                   translate_response, add_request, retval>>

\* add and (not is_exist or force) and twords, line 250
ShouldAdd(opts, response) ==
    /\ Truthy(opts["add"])
    /\ (~response[1] \/ Truthy(opts["force"]))
    /\ response[2] # <<>>

RECURSIVE Join(_, _)
\* sep.join(words)
Join(sep, words) ==
    IF words = <<>> THEN <<>>
    ELSE IF Len(words) = 1 THEN Head(words)
    ELSE Head(words) \o sep \o Join(sep, Tail(words))

\* A faulty variant of AddResult: the JSON is returned whatever it holds.
AddResultIgnoringError(response) ==
    IF response.status # 200 THEN None ELSE "add_json"

\* What lingualeo_add returns, lines 211-221
AddResult(response) ==
    IF response.status # 200 THEN None
    ELSE IF response.error_msg THEN None
    ELSE "add_json"

\* Lines 250-252, with lingualeo_add, lines 204-221
AddWord ==
    /\ pc = "add"
    /\ IF ShouldAdd(options, translate_response)
       THEN \E response \in Responses :
               /\ add_request' = [word |-> options["word"].val,
                                  tword |-> Join(<<",", " ">>, translate_response[2])]
               /\ log' = Append(log, Entry("add", response))
               /\ debugged' = Debugged("add")
               /\ retval' = AddResult(response)
       ELSE /\ retval' = "translate_response"
            /\ UNCHANGED <<add_request, log, debugged>>
    /\ pc' = "returned"
    /\ UNCHANGED <<translates, pairs, twords, cfgIdx, cfgFiles, lastKind, result,
                   seenTrue, args, options, auth_response, translate_response,
                   exitCode>>

\* main, lines 346-347: exit 1 on None, else the interpreter's exit, 0
MainExit ==
    /\ pc = "returned"
    /\ exitCode' = IF retval = None THEN <<1>> ELSE <<0>>
    /\ pc' = "exited"
    /\ UNCHANGED <<translates, pairs, twords, cfgIdx, cfgFiles, lastKind, result,
                   seenTrue, args, options, log, debugged, auth_response,
                   translate_response, add_request, retval>>

Next ==
    \/ Main
    \/ LingualeoAuth
    \/ AfterAuth
    \/ LingualeoTranslate
    \/ AfterTranslate
    \/ PlaySound
    \/ AddWord
    \/ MainExit

Init == InitRun

Spec == Init /\ [][Next]_vars

-----------------------------------------------------------------------------
(* The claims about a run. *)

\* The positions of the log that hold a step.
Steps(step) == { i \in 1..Len(log) : log[i].step = step }

\* The steps that are requests to the service.
Requests == {"auth", "translate", "add"}

\* A request failed: a status other than 200, or an error_msg.
Failed(e) == e.step \in Requests /\ (e.status # 200 \/ e.error_msg)

\* The place of a step in the order authenticate, translate, sound, add.
StepOrder(step) ==
    CASE step = "auth"        -> 1
      [] step = "translate"   -> 2
      [] step = "sound_start" -> 3
      [] step = "sound_end"   -> 4
      [] step = "sound_raise" -> 4
      [] step = "add"         -> 5

\* C1: the steps of a run come in the order authenticate, translate, sound,
\* add; translate is requested only after an authentication that succeeded,
\* the player and the add request start only after a translate that returned a
\* result, and add is requested only after the player, if started, has ended.
C1_StepsInOrder ==
    /\ \A i, j \in 1..Len(log) :
          i < j => StepOrder(log[i].step) < StepOrder(log[j].step)
    /\ \A i \in Steps("translate") :
          /\ auth_response # None
          /\ \E j \in Steps("auth") : j < i /\ ~Failed(log[j])
    /\ \A i \in Steps("sound_start") \cup Steps("sound_raise") \cup Steps("add") :
          /\ translate_response # <<>>
          /\ \E j \in Steps("translate") : j < i /\ ~Failed(log[j])
    /\ \A i \in Steps("add") :
          \A j \in Steps("sound_start") :
              \E k \in Steps("sound_end") : j < k /\ k < i

\* A run that took every step.
C1_Witness ==
    /\ Len(log) = 5
    /\ log[1].step = "auth"
    /\ log[2].step = "translate"
    /\ log[3].step = "sound_start"
    /\ log[4].step = "sound_end"
    /\ log[5].step = "add"

\* C2: the exit code is 1 when a required option is missing after the merge or
\* a request (authenticate, translate, add) met a status other than 200 or an
\* error_msg, and it is 0 only when no option is missing and no request that
\* was made failed.
C2_ExitCode ==
    pc \in {"exited", "crashed"} =>
        LET missing == \E name \in {"email", "password", "add", "word", "debug",
                                    "force", "sound"} : name \notin DOMAIN result
            failed  == \E i \in 1..Len(log) : Failed(log[i])
        IN  /\ exitCode \in {<<0>>, <<1>>}
            /\ (missing \/ failed) => exitCode = <<1>>
            /\ exitCode = <<0>> => ~missing /\ ~failed

\* A run whose add request, its third request, meets an error_msg and exits 1.
C2_Witness ==
    /\ pc = "exited"
    /\ exitCode = <<1>>
    /\ Steps("add") # {}
    /\ log[Len(log)].step = "add"
    /\ log[Len(log)].status = 200
    /\ log[Len(log)].error_msg

\* C3: when the pairs handed to the ranker are none, because the service
\* returned no entry or because no fragment survived the filter, the translate
\* step reports failure (lingualeo_translate returns None) and the process
\* exits with a code other than 0.
C3_EmptyRankingIsFailure ==
    (Steps("translate") # {} /\ pairs = <<>>) =>
        /\ translate_response = <<>>
        /\ pc = "exited" => exitCode # <<0>>

\* C9: no endpoint is requested twice in a run, a failed request is the last
\* step of the run, and a run with a failed request exits with code 1.
C9_NoRetries ==
    /\ \A i, j \in 1..Len(log) :
          (i # j /\ log[i].step \in Requests) => log[i].step # log[j].step
    /\ \A i \in 1..Len(log) : Failed(log[i]) => i = Len(log)
    /\ (\E i \in 1..Len(log) : Failed(log[i])) =>
          /\ pc \in {"after_auth", "after_translate", "returned", "exited"}
          /\ pc = "exited" => exitCode = <<1>>

\* A run whose translate request failed with a status other than 200 and that
\* has exited.
C9_Witness ==
    /\ pc = "exited"
    /\ Len(log) = 2
    /\ log[2].step = "translate"
    /\ log[2].status # 200
    /\ exitCode = <<1>>

\* The conditions of the add request: the translate step returned a result,
\* add is true, the ranked list is not empty, and the word is new or force is
\* true.
C10_Conditions ==
    /\ translate_response # <<>>
    /\ "add" \in DOMAIN result /\ result["add"] = PyTrue
    /\ twords # <<>>
    /\ \/ ~translate_response[1]
       \/ "force" \in DOMAIN result /\ result["force"] = PyTrue

RECURSIVE C10_Offset(_, _)
\* Where word i starts in the joined string, less one.
C10_Offset(ws, i) ==
    IF i = 1 THEN 0 ELSE C10_Offset(ws, i - 1) + Len(ws[i - 1]) + 2

\* t is the words of ws in order, a comma and a space between two of them.
C10_IsJoined(t, ws) ==
    /\ ws # <<>>
    /\ Len(t) = C10_Offset(ws, Len(ws)) + Len(ws[Len(ws)])
    /\ \A i \in 1..Len(ws) :
          /\ \A k \in 1..Len(ws[i]) : t[C10_Offset(ws, i) + k] = ws[i][k]
          /\ i < Len(ws) =>
                /\ t[C10_Offset(ws, i) + Len(ws[i]) + 1] = ","
                /\ t[C10_Offset(ws, i) + Len(ws[i]) + 2] = " "

\* The add request of a run that has ended is the ranked list joined.
C10_Tword ==
    Steps("add") # {} => C10_IsJoined(add_request.tword, twords)

\* C10 as stated: in a run that has ended the add request was made if and
\* only if the conditions hold, and its tword is the ranked list joined with
\* ', ' in rank order.
C10_AddIffConditions ==
    pc \in {"returned", "exited", "crashed"} =>
        /\ Steps("add") # {} <=> C10_Conditions
        /\ C10_Tword

\* What holds in place of C10: in a run that has ended the add request was made
\* if and only if the conditions hold and the sound step did not raise; its
\* tword is the ranked list joined with ', ' in rank order.
C10_AddIffConditionsAndNoRaise ==
    pc \in {"returned", "exited", "crashed"} =>
        /\ Steps("add") # {} <=> (C10_Conditions /\ Steps("sound_raise") = {})
        /\ C10_Tword

\* A word the user has already is added under force, with two translations.
C10_Witness ==
    /\ pc = "exited"
    /\ Steps("add") # {}
    /\ translate_response[1]
    /\ Len(twords) = 2
    /\ add_request.tword = twords[1] \o <<",", " ">> \o twords[2]

-----------------------------------------------------------------------------
(* The claims about option resolution. *)

\* C7: once prepare_options has merged the command line, each of add, debug,
\* force and sound is true in the merged options if and only if some source, a
\* melded config file or the command line, set it to true.
C7_FlagsOrCombined ==
    pc \in {"prepared", "no_options"} =>
        \A f \in Flags :
            /\ f \in DOMAIN result
            /\ (result[f] = PyTrue) <=> (f \in seenTrue)
            /\ Truthy(result[f]) <=> (f \in seenTrue)

\* Three config files were melded, one of them set add, and the command line,
\* the last source, did not: add is true in the options returned.
C7_Witness ==
    /\ pc = "prepared"
    /\ Len(cfgFiles) = 3
    /\ "add" \in seenTrue
    /\ args["add"] = PyFalse
    /\ options["add"] = PyTrue
    /\ "force" \notin seenTrue

\* The merged flags are True or None, the values a run starts from.
MergedFlagsTrueOrNone ==
    pc \in {"prepared", "no_options"} =>
        \A f \in Flags : result[f] \in {PyTrue, PyNone}

\* C8: a config file that cannot be read, is no valid YAML, is empty or holds
\* no mapping leaves the melded config as it was, and read_configs goes on to
\* the next file.
C8_UnusableConfigIsEmpty ==
    [][ ( /\ pc = "read_configs"
          /\ cfgIdx <= Len(cfgFiles)
          /\ lastKind' \in {"unreadable", "invalid", "empty", "text", "sequence"} )
        => ( /\ result' = result
             /\ pc' = "read_configs"
             /\ cfgIdx' = cfgIdx + 1 ) ]_vars

-----------------------------------------------------------------------------
(* C4: the ranker. *)

\* The candidates of the input pairs.
C4_Candidates == { pairs[k][2] : k \in 1..Len(pairs) }

\* The highest vote count a candidate comes with.
C4_Best(w) ==
    LET vs == { pairs[k][1] : k \in { n \in 1..Len(pairs) : pairs[n][2] = w } }
    IN  CHOOSE v \in vs : \A u \in vs : u <= v

\* a > b lexicographically, by code point.
C4_LexGreater(a, b) ==
    \E i \in 1..Len(a) :
        /\ \A k \in 1..(i - 1) : k <= Len(b) /\ a[k] = b[k]
        /\ (i > Len(b) \/ Ord(a[i]) > Ord(b[i]))

\* C4: the ranked word list holds exactly the distinct candidates of the input
\* pairs, each once, a candidate with more votes (counting its highest vote
\* count) before one with fewer and, on equal votes, the lexicographically
\* greater candidate first.
C4_RankedByBestVotes ==
    pc = "ranked" =>
        /\ { twords[i] : i \in 1..Len(twords) } = C4_Candidates
        /\ \A i, j \in 1..Len(twords) : i # j => twords[i] # twords[j]
        /\ \A i, j \in 1..Len(twords) :
              i < j =>
                \/ C4_Best(twords[i]) > C4_Best(twords[j])
                \/ /\ C4_Best(twords[i]) = C4_Best(twords[j])
                   /\ C4_LexGreater(twords[i], twords[j])

\* A candidate that comes with two vote counts, outranking on its higher one a
\* candidate it would follow on its lower one, and two candidates that tie.
C4_Witness ==
    /\ pc = "ranked"
    /\ Len(pairs) = 3
    /\ pairs[1][2] = pairs[3][2]
    /\ pairs[1][1] < pairs[2][1]
    /\ pairs[2][1] = pairs[3][1]
    /\ pairs[2][2] # pairs[3][2]
    /\ Len(twords) = 2

-----------------------------------------------------------------------------
(* C6: the extractor. *)

RECURSIVE C6_RunsAcc(_, _)
\* The maximal pieces of s that hold no colon, comma or semicolon, the piece
\* under way being cur.
C6_RunsAcc(s, cur) ==
    IF s = <<>> THEN <<cur>>
    ELSE IF Head(s) \in {":", ",", ";"}
         THEN <<cur>> \o C6_RunsAcc(Tail(s), <<>>)
         ELSE C6_RunsAcc(Tail(s), Append(cur, Head(s)))

C6_Runs(s) == C6_RunsAcc(s, <<>>)

\* A fragment survives: more than two characters between its surrounding
\* whitespace, the first of them no digit.
C6_Kept(r) ==
    LET w == WsStrip(r) IN Len(w) > 2 /\ w[1] # "1"

RECURSIVE C6_Tagged(_, _)
C6_Tagged(v, rs) ==
    IF rs = <<>> THEN <<>>
    ELSE << <<v, WsStrip(Head(rs))>> >> \o C6_Tagged(v, Tail(rs))

RECURSIVE C6_Expected(_)
\* One pair per surviving fragment of each entry, in order, with the entry's
\* votes, 0 if it has none.
C6_Expected(ts) ==
    IF ts = <<>> THEN <<>>
    ELSE C6_Tagged(IF "votes" \in DOMAIN Head(ts) THEN Head(ts).votes ELSE 0,
                   SelectSeq(C6_Runs(Head(ts).value), C6_Kept))
         \o C6_Expected(Tail(ts))

-----------------------------------------------------------------------------
(* C5: what an emitted candidate looks like. *)

\* The alphabet the cleaning is said to keep: Cyrillic letters, hyphen,
\* period, space.
C5_Permitted == {"p", "P", "-", ".", " "}

\* Lower-cased, in the permitted alphabet, nothing to trim at either end, no run
\* of whitespace, no space before a period.
C5_Cleaned(c) ==
    /\ \A k \in 1..Len(c) : c[k] # "P" /\ c[k] \in C5_Permitted
    /\ c # <<>> => /\ c[1] \notin Whitespace \cup Delims
                   /\ c[Len(c)] \notin Whitespace \cup Delims
    /\ \A k \in 1..(Len(c) - 1) :
          /\ ~(c[k] \in Whitespace /\ c[k + 1] \in Whitespace)
          /\ ~(c[k] \in Whitespace /\ c[k + 1] = ".")

C5_PieceOf(c, s) ==
    \E a \in 0..Len(s) :
        /\ a + Len(c) <= Len(s)
        /\ \A k \in 1..Len(c) : s[a + k] = c[k]

=============================================================================
